---- MODULE Spec2Model ----
(***************************************************************************)
(* Model of sms_tray (src/main.go): a tray-resident service whose menu     *)
(* starts and stops a gin HTTP listener on :9002, with two POST routes.    *)
(*                                                                         *)
(* Goroutines:                                                             *)
(*   "main"  main(): setupLog, systray.Run, and the exit callback that     *)
(*           systray.Run(onReady, onExit) registers;                       *)
(*   "auto"  the automatic start goroutine of onReady (lines 100-106);     *)
(*   "menu"  the menu event loop of onReady (lines 108-146);               *)
(*   one server goroutine per httpServerWrapper.Start call (lines 42-48);  *)
(*   one handler goroutine per accepted request (lines 154-184).           *)
(* The globals are read and written without synchronisation, so every     *)
(* statement that touches one is a step of its own.                        *)
(***************************************************************************)
EXTENDS Integers, Sequences, FiniteSets, TLC

\* ---------------------------------------------------------------- bounds
\* startServer calls in one run (each makes one httpServerWrapper).
MaxWrappers == 2
\* Requests accepted in one run, beside the lifecycle commands.
MaxRequests == 1
\* Requests accepted by a listener that stays up (SpecDispatch).
MaxConcurrent == 2

\* Pieces a message text is made of, for the extraction of the code.
MaxPieces == 6

\* ------------------------------------------------------------- constants
Threads == {"main", "auto", "menu"}

\* The goroutines that call writeLog side by side: the automatic start, the
\* menu loop, the goroutine of httpServerWrapper.Start and two handlers.
LogWriters == {"auto", "menu", "server", "handler1", "handler2"}

\* The line each of them writes.
LineOf == [auto |-> "auto started", menu |-> "started", server |-> "run error",
           handler1 |-> "copy", handler2 |-> "msg"]

VARIABLES
    proc,           \* "running" | "exit1" (os.Exit(1)) | "panicked" | "terminated"
    pc,             \* position of each goroutine of Threads
    logFile,        \* "nil" | "open" | "closed"
    log,            \* set of the messages written to the log sink
    lateLog,        \* writeLog was called after logFile.Close()
    tray,           \* "none" | "ready" | "quit"
    mStartEnabled,  \* mStart is enabled
    mStopEnabled,   \* mStop is enabled
    serverRunning,  \* var serverRunning bool
    serverThread,   \* var serverThread *httpServerWrapper: 0 is nil
    wrappers,       \* the httpServerWrapper values made so far: [stopClosed,
                    \* by], by the goroutine whose startServer made it
    servers,        \* the goroutines of httpServerWrapper.Start: [w, st]
    portExternal,   \* another process holds :9002
    onExitCalls,    \* number of times onExit was entered
    reqs,           \* the requests accepted so far, one handler goroutine each
    clipboard,      \* text on the OS clipboard
    logLock,        \* var logLock sync.Mutex: "free", or the goroutine holding it
    wl              \* position of each goroutine of LogWriters in writeLog

vars == <<proc, pc, logFile, log, lateLog, tray, mStartEnabled, mStopEnabled,
          serverRunning, serverThread, wrappers, servers, portExternal,
          onExitCalls, reqs, clipboard, logLock, wl>>

\* ------------------------------------------------------------ extraction
\* Message text is a sequence of characters. Marker is the token 验证码,
\* Digit the characters \d matches; "x" is any other character.
Marker == <<"yan", "zheng", "ma">>

Digit == {"1", "2"}

\* The pattern 验证码[\s\S]*?(\d+) can match from position i.
MatchAt(s, i) ==
    /\ i + 2 <= Len(s)
    /\ SubSeq(s, i, i + 2) = Marker
    /\ \E j \in (i + 3)..Len(s) : s[j] \in Digit

\* GroupAt with a lazy group, (\d+?): the capture stops at its first digit.
GroupAtLazy(s, i) ==
    LET first == CHOOSE j \in (i + 3)..Len(s) :
                   /\ s[j] \in Digit
                   /\ \A k \in (i + 3)..(j - 1) : s[k] \notin Digit
    IN  SubSeq(s, first, first)

\* The capture of the match starting at i: [\s\S]*? is lazy, so the group
\* opens at the first digit after the marker; \d+ is greedy, so it takes
\* the whole run.
GroupAt(s, i) ==
    LET first == CHOOSE j \in (i + 3)..Len(s) :
                   /\ s[j] \in Digit
                   /\ \A k \in (i + 3)..(j - 1) : s[k] \notin Digit
        last == CHOOSE k \in first..Len(s) :
                   /\ \A m \in first..k : s[m] \in Digit
                   /\ (k = Len(s) \/ s[k + 1] \notin Digit)
    IN  SubSeq(s, first, last)

\* reCode.FindStringSubmatch(content): the leftmost match, as
\* <<whole, group>>, or the empty list when nothing matches. Only the group
\* is used, so the whole match is left out of the result.
FindStringSubmatch(s) ==
    LET starts == {i \in 1..Len(s) : MatchAt(s, i)}
    IN  IF starts = {} THEN <<>>
        ELSE LET i == CHOOSE a \in starts : \A b \in starts : a <= b
             IN  <<"whole", GroupAt(s, i)>>

\* ExtractCode with the marker dropped from the pattern, (\d+): the first
\* run of digits anywhere in s.
ExtractCodeAnywhere(s) ==
    LET ds == {j \in 1..Len(s) : s[j] \in Digit}
    IN  IF ds = {} THEN <<>>
        ELSE LET first == CHOOSE a \in ds : \A b \in ds : a <= b
                 ends == {k \in first..Len(s) :
                            \A m \in first..k : s[m] \in Digit}
                 last == CHOOSE a \in ends : \A b \in ends : b <= a
             IN  SubSeq(s, first, last)

\* code := ""; if len(matches) > 1 { code = matches[1] }
ExtractCode(s) ==
    LET matches == FindStringSubmatch(s)
    IN  IF Len(matches) > 1 THEN matches[2] ELSE <<>>

\* What the clipboard holds before the service writes to it.
ClipOther == <<"other">>

\* The message texts requests carry: none (a missing field decodes to ""),
\* digits with no marker, a code right after the marker, a code after
\* other text following the marker.
Contents ==
    { <<>>,
      <<"1", "x">>,
      Marker \o <<"1">>,
      Marker \o <<"x", "2", "1", "x">> }

Routes == {"copy", "msg"}

\* Message texts in general: up to MaxPieces pieces, each the marker, the
\* first character of the marker alone, a digit or another character.
Pieces == {Marker, <<"yan">>, <<"1">>, <<"2">>, <<"x">>}

RECURSIVE Flatten(_)
Flatten(ps) == IF ps = <<>> THEN <<>> ELSE Head(ps) \o Flatten(Tail(ps))

Texts == {Flatten(ps) : ps \in UNION {[1..n -> Pieces] : n \in 0..MaxPieces}}

\* ------------------------------------------------------------- listener
\* The server goroutines whose gin engine holds the port.
Bound == {i \in DOMAIN servers : servers[i].st = "listening"}

\* net.Listen inside gin's Run: the port is exclusive.
PortFree == ~portExternal /\ Bound = {}

Alive == proc = "running"

\* writeLog: the line reaches the sink only while the file is open.
LogAfter(tags) == IF logFile = "open" THEN log \cup tags ELSE log

LateAfter == lateLog \/ logFile # "open"

Init ==
    /\ proc = "running"
    /\ pc = [g \in Threads |-> IF g = "main" THEN "setupLog" ELSE "idle"]
    /\ logFile = "nil"
    /\ log = {}
    /\ lateLog = FALSE
    /\ tray = "none"
    /\ mStartEnabled = FALSE
    /\ mStopEnabled = FALSE
    /\ serverRunning = FALSE
    /\ serverThread = 0
    /\ wrappers = <<>>
    /\ servers = <<>>
    /\ portExternal \in BOOLEAN
    /\ onExitCalls = 0
    /\ reqs = <<>>
    /\ clipboard = ClipOther
    /\ logLock = "free"
    /\ wl = [g \in LogWriters |-> "idle"]

\* ------------------------------------------------------------ main, tray
\* SetupLog going on without the log file when it cannot be opened.
SetupLogNoExit ==
    /\ Alive /\ pc["main"] = "setupLog"
    /\ \E ok \in BOOLEAN :
         IF ok
         THEN /\ logFile' = "open"
              /\ log' = log \cup {"program start"}
         ELSE UNCHANGED <<logFile, log>>
    /\ pc' = [pc EXCEPT !["main"] = "run"]
    /\ UNCHANGED <<proc, lateLog, tray, mStartEnabled, mStopEnabled,
                   serverRunning, serverThread, wrappers, servers,
                   portExternal, onExitCalls, reqs, clipboard,
                   logLock, wl>>

\* setupLog: open the log file or exit with status 1.
SetupLog ==
    /\ Alive /\ pc["main"] = "setupLog"
    /\ \E ok \in BOOLEAN :
         IF ok
         THEN /\ logFile' = "open"
              /\ log' = log \cup {"program start"}
              /\ pc' = [pc EXCEPT !["main"] = "run"]
              /\ proc' = proc
         ELSE /\ proc' = "exit1"
              /\ UNCHANGED <<logFile, log, pc>>
    /\ UNCHANGED <<lateLog, tray, mStartEnabled, mStopEnabled, serverRunning,
                   serverThread, wrappers, servers, portExternal, onExitCalls, reqs, clipboard,
                   logLock, wl>>

\* systray.Run(onReady, onExit): the tray comes up, onReady adds the menu
\* items, disables mStop and launches the two goroutines.
OnReady ==
    /\ Alive /\ pc["main"] = "run"
    /\ tray' = "ready"
    /\ mStartEnabled' = TRUE
    /\ mStopEnabled' = FALSE
    /\ pc' = [pc EXCEPT !["main"] = "nativeLoop", !["auto"] = "create",
                        !["menu"] = "select"]
    /\ UNCHANGED <<proc, logFile, log, lateLog, serverRunning, serverThread,
                   wrappers, servers, portExternal, onExitCalls, reqs, clipboard,
                   logLock, wl>>

\* ------------------------------------------------- startServer and after
\* Where a goroutine goes once its start sequence is over.
Home(g) == IF g = "auto" THEN "done" ELSE "select"

\* startServer up to the assignment of serverThread (lines 150-190).
StartServerCreate(g) ==
    /\ Alive /\ pc[g] = "create"
    /\ Len(wrappers) < MaxWrappers
    /\ wrappers' = Append(wrappers, [stopClosed |-> FALSE, by |-> g])
    /\ serverThread' = Len(wrappers) + 1
    /\ pc' = [pc EXCEPT ![g] = "spawn"]
    /\ UNCHANGED <<proc, logFile, log, lateLog, tray, mStartEnabled,
                   mStopEnabled, serverRunning, servers, portExternal,
                   onExitCalls, reqs, clipboard,
                   logLock, wl>>

\* serverThread.Start(): reads the global again and launches the goroutine.
StartServerSpawn(g) ==
    /\ Alive /\ pc[g] = "spawn"
    /\ servers' = Append(servers, [w |-> serverThread, st |-> "spawned"])
    /\ pc' = [pc EXCEPT ![g] = "set"]
    /\ UNCHANGED <<proc, logFile, log, lateLog, tray, mStartEnabled,
                   mStopEnabled, serverRunning, serverThread, wrappers,
                   portExternal, onExitCalls, reqs, clipboard,
                   logLock, wl>>

\* serverRunning = true
SetRunning(g) ==
    /\ Alive /\ pc[g] = "set"
    /\ serverRunning' = TRUE
    /\ pc' = [pc EXCEPT ![g] = "disable"]
    /\ UNCHANGED <<proc, logFile, log, lateLog, tray, mStartEnabled,
                   mStopEnabled, serverThread, wrappers, servers,
                   portExternal, onExitCalls, reqs, clipboard,
                   logLock, wl>>

\* mStart.Disable()
DisableStart(g) ==
    /\ Alive /\ pc[g] = "disable"
    /\ mStartEnabled' = FALSE
    /\ pc' = [pc EXCEPT ![g] = "enable"]
    /\ UNCHANGED <<proc, logFile, log, lateLog, tray, mStopEnabled,
                   serverRunning, serverThread, wrappers, servers,
                   portExternal, onExitCalls, reqs, clipboard,
                   logLock, wl>>

\* mStop.Enable()
EnableStop(g) ==
    /\ Alive /\ pc[g] = "enable"
    /\ mStopEnabled' = TRUE
    /\ pc' = [pc EXCEPT ![g] = "log"]
    /\ UNCHANGED <<proc, logFile, log, lateLog, tray, mStartEnabled,
                   serverRunning, serverThread, wrappers, servers,
                   portExternal, onExitCalls, reqs, clipboard,
                   logLock, wl>>

\* writeLog("HTTP 服务已自动启动") / writeLog("HTTP 服务已启动")
LogStarted(g) ==
    /\ Alive /\ pc[g] = "log"
    /\ log' = LogAfter({IF g = "auto" THEN "auto started" ELSE "started"})
    /\ lateLog' = LateAfter
    /\ pc' = [pc EXCEPT ![g] = Home(g)]
    /\ UNCHANGED <<proc, logFile, tray, mStartEnabled, mStopEnabled,
                   serverRunning, serverThread, wrappers, servers,
                   portExternal, onExitCalls, reqs, clipboard,
                   logLock, wl>>

\* ------------------------------------------------------ server goroutine
\* ServerRun with a listener that does not fail on a port in use.
ServerRunShared(i) ==
    /\ Alive /\ servers[i].st = "spawned"
    /\ servers' = [servers EXCEPT ![i].st = "listening"]
    /\ log' = LogAfter({"listen"})
    /\ lateLog' = LateAfter
    /\ UNCHANGED <<proc, pc, logFile, tray, mStartEnabled, mStopEnabled,
                   serverRunning, serverThread, wrappers, portExternal,
                   onExitCalls, reqs, clipboard,
                   logLock, wl>>

\* The goroutine of httpServerWrapper.Start: writeLog("监听端口", s.addr),
\* then s.server.Run(s.addr), which binds and serves for ever, or returns
\* the bind error, which is logged.
ServerRun(i) ==
    /\ Alive /\ servers[i].st = "spawned"
    /\ IF PortFree
       THEN /\ servers' = [servers EXCEPT ![i].st = "listening"]
            /\ log' = LogAfter({"listen"})
       ELSE /\ servers' = [servers EXCEPT ![i].st = "failed"]
            /\ log' = LogAfter({"listen", "run error"})
    /\ lateLog' = LateAfter
    /\ UNCHANGED <<proc, pc, logFile, tray, mStartEnabled, mStopEnabled,
                   serverRunning, serverThread, wrappers, portExternal,
                   onExitCalls, reqs, clipboard,
                   logLock, wl>>

\* ------------------------------------------------------------- menu loop
MenuIdle == Alive /\ tray = "ready" /\ pc["menu"] = "select"

\* case <-mStart.ClickedCh
ClickStart ==
    /\ MenuIdle /\ mStartEnabled
    /\ Len(wrappers) + (IF pc["auto"] \in {"idle", "create"} THEN 1 ELSE 0)
         < MaxWrappers
    /\ pc' = [pc EXCEPT !["menu"] = "s_check"]
    /\ UNCHANGED <<proc, logFile, log, lateLog, tray, mStartEnabled,
                   mStopEnabled, serverRunning, serverThread, wrappers,
                   servers, portExternal, onExitCalls, reqs, clipboard,
                   logLock, wl>>

\* MenuStartCheck without the test of serverRunning.
MenuStartCheckNoGuard ==
    /\ Alive /\ pc["menu"] = "s_check"
    /\ pc' = [pc EXCEPT !["menu"] = "create"]
    /\ UNCHANGED <<proc, logFile, log, lateLog, tray, mStartEnabled,
                   mStopEnabled, serverRunning, serverThread, wrappers,
                   servers, portExternal, onExitCalls, reqs, clipboard,
                   logLock, wl>>

\* if !serverRunning { ... }
MenuStartCheck ==
    /\ Alive /\ pc["menu"] = "s_check"
    /\ pc' = [pc EXCEPT !["menu"] = IF serverRunning THEN "select" ELSE "create"]
    /\ UNCHANGED <<proc, logFile, log, lateLog, tray, mStartEnabled,
                   mStopEnabled, serverRunning, serverThread, wrappers,
                   servers, portExternal, onExitCalls, reqs, clipboard,
                   logLock, wl>>

\* case <-mStop.ClickedCh
ClickStop ==
    /\ MenuIdle /\ mStopEnabled
    /\ pc' = [pc EXCEPT !["menu"] = "t_check"]
    /\ UNCHANGED <<proc, logFile, log, lateLog, tray, mStartEnabled,
                   mStopEnabled, serverRunning, serverThread, wrappers,
                   servers, portExternal, onExitCalls, reqs, clipboard,
                   logLock, wl>>

\* if serverRunning { ... }
MenuStopCheck ==
    /\ Alive /\ pc["menu"] = "t_check"
    /\ pc' = [pc EXCEPT !["menu"] = IF serverRunning THEN "t_stop" ELSE "select"]
    /\ UNCHANGED <<proc, logFile, log, lateLog, tray, mStartEnabled,
                   mStopEnabled, serverRunning, serverThread, wrappers,
                   servers, portExternal, onExitCalls, reqs, clipboard,
                   logLock, wl>>

\* stopServer, with httpServerWrapper.Stop: close(s.stopCh) panics on a
\* closed channel; nothing receives from stopCh, so the server goroutine and
\* its port are left as they are.
StopServer(g, next) ==
    /\ IF serverThread = 0
       THEN /\ pc' = [pc EXCEPT ![g] = next]
            /\ UNCHANGED <<proc, wrappers, log, lateLog>>
       ELSE IF wrappers[serverThread].stopClosed
       THEN /\ proc' = "panicked"
            /\ UNCHANGED <<pc, wrappers, log, lateLog>>
       ELSE /\ wrappers' = [wrappers EXCEPT ![serverThread].stopClosed = TRUE]
            /\ log' = LogAfter({"http closed"})
            /\ lateLog' = LateAfter
            /\ pc' = [pc EXCEPT ![g] = next]
            /\ proc' = proc
    /\ UNCHANGED <<logFile, tray, mStartEnabled, mStopEnabled, serverRunning,
                   serverThread, servers, portExternal, reqs, clipboard,
                   logLock, wl>>

\* stopServer() of the Stop branch
MenuStop ==
    /\ Alive /\ pc["menu"] = "t_stop"
    /\ StopServer("menu", "t_set")
    /\ UNCHANGED onExitCalls

\* serverRunning = false
ClearRunning ==
    /\ Alive /\ pc["menu"] = "t_set"
    /\ serverRunning' = FALSE
    /\ pc' = [pc EXCEPT !["menu"] = "t_disable"]
    /\ UNCHANGED <<proc, logFile, log, lateLog, tray, mStartEnabled,
                   mStopEnabled, serverThread, wrappers, servers,
                   portExternal, onExitCalls, reqs, clipboard,
                   logLock, wl>>

\* mStop.Disable()
DisableStop ==
    /\ Alive /\ pc["menu"] = "t_disable"
    /\ mStopEnabled' = FALSE
    /\ pc' = [pc EXCEPT !["menu"] = "t_enable"]
    /\ UNCHANGED <<proc, logFile, log, lateLog, tray, mStartEnabled,
                   serverRunning, serverThread, wrappers, servers,
                   portExternal, onExitCalls, reqs, clipboard,
                   logLock, wl>>

\* mStart.Enable()
EnableStart ==
    /\ Alive /\ pc["menu"] = "t_enable"
    /\ mStartEnabled' = TRUE
    /\ pc' = [pc EXCEPT !["menu"] = "t_log"]
    /\ UNCHANGED <<proc, logFile, log, lateLog, tray, mStopEnabled,
                   serverRunning, serverThread, wrappers, servers,
                   portExternal, onExitCalls, reqs, clipboard,
                   logLock, wl>>

\* writeLog("HTTP 服务已停止")
LogStopped ==
    /\ Alive /\ pc["menu"] = "t_log"
    /\ log' = LogAfter({"stopped"})
    /\ lateLog' = LateAfter
    /\ pc' = [pc EXCEPT !["menu"] = "select"]
    /\ UNCHANGED <<proc, logFile, tray, mStartEnabled, mStopEnabled,
                   serverRunning, serverThread, wrappers, servers,
                   portExternal, onExitCalls, reqs, clipboard,
                   logLock, wl>>

\* ------------------------------------------------------------------ exit
\* case <-mQuit.ClickedCh: onExit() is called from the menu loop
ClickQuit ==
    /\ MenuIdle
    /\ pc' = [pc EXCEPT !["menu"] = "x_stop"]
    /\ UNCHANGED <<proc, logFile, log, lateLog, tray, mStartEnabled,
                   mStopEnabled, serverRunning, serverThread, wrappers,
                   servers, portExternal, onExitCalls, reqs, clipboard,
                   logLock, wl>>

\* onExit: stopServer()
OnExitStop(g) ==
    /\ Alive /\ pc[g] = "x_stop"
    /\ onExitCalls' = onExitCalls + 1
    /\ StopServer(g, "x_log")

\* onExit: writeLog("程序退出")
OnExitLog(g) ==
    /\ Alive /\ pc[g] = "x_log"
    /\ log' = LogAfter({"program exit"})
    /\ lateLog' = LateAfter
    /\ pc' = [pc EXCEPT ![g] = "x_close"]
    /\ UNCHANGED <<proc, logFile, tray, mStartEnabled, mStopEnabled,
                   serverRunning, serverThread, wrappers, servers,
                   portExternal, onExitCalls, reqs, clipboard,
                   logLock, wl>>

\* onExit: logFile.Sync(); logFile.Close().  Back in the menu loop the next
\* statement is systray.Quit(); back in systray.Run the process ends.
OnExitClose(g) ==
    /\ Alive /\ pc[g] = "x_close"
    /\ logFile' = "closed"
    /\ IF g = "menu"
       THEN /\ pc' = [pc EXCEPT ![g] = "q_quit"]
            /\ proc' = proc
       ELSE /\ pc' = [pc EXCEPT ![g] = "returned"]
            /\ proc' = "terminated"
    /\ UNCHANGED <<log, lateLog, tray, mStartEnabled, mStopEnabled,
                   serverRunning, serverThread, wrappers, servers,
                   portExternal, onExitCalls, reqs, clipboard,
                   logLock, wl>>

\* systray.Quit(); return
SystrayQuit ==
    /\ Alive /\ pc["menu"] = "q_quit"
    /\ tray' = "quit"
    /\ pc' = [pc EXCEPT !["menu"] = "returned"]
    /\ UNCHANGED <<proc, logFile, log, lateLog, mStartEnabled, mStopEnabled,
                   serverRunning, serverThread, wrappers, servers,
                   portExternal, onExitCalls, reqs, clipboard,
                   logLock, wl>>

\* systray.Run leaves its loop on quit and calls the exit callback it was
\* given at line 62, which is onExit.
RunExitCallback ==
    /\ Alive /\ pc["main"] = "nativeLoop" /\ tray = "quit"
    /\ pc' = [pc EXCEPT !["main"] = "x_stop"]
    /\ UNCHANGED <<proc, logFile, log, lateLog, tray, mStartEnabled,
                   mStopEnabled, serverRunning, serverThread, wrappers,
                   servers, portExternal, onExitCalls, reqs, clipboard,
                   logLock, wl>>

\* -------------------------------------------------------------- handlers
lifeVars == <<proc, pc, logFile, tray, mStartEnabled, mStopEnabled,
              serverRunning, serverThread, wrappers, servers, portExternal,
              onExitCalls, logLock, wl>>

NoResponse == [status |-> 0, body |-> "none"]

\* A bound gin engine accepts a POST to one of its two routes and runs the
\* handler in a goroutine of its own. c.PostForm("content") gives "" for a
\* missing field.
Accept(route, content, limit) ==
    /\ Alive /\ Bound # {}
    /\ Len(reqs) < limit
    /\ reqs' = Append(reqs, [route |-> route, content |-> content,
                             st |-> "recv", code |-> <<>>, logs |-> 0,
                             toasts |-> 0, notFound |-> 0, toastFailed |-> FALSE,
                             clipErr |-> FALSE, clipWrites |-> 0,
                             written |-> <<>>, pastes |-> 0,
                             pasted |-> <<>>, resp |-> NoResponse])
    /\ UNCHANGED <<lifeVars, log, lateLog, clipboard>>

\* /copy, lines 155-168: log the content, raise the notification with the
\* message body, extract the code; log it, or raise the "not found"
\* notification and log that. notification.Push() may fail; its error is
\* dropped.
CopyExtract(r) ==
    /\ Alive /\ reqs[r].route = "copy" /\ reqs[r].st = "recv"
    /\ LET code == ExtractCode(reqs[r].content)
           found == Len(FindStringSubmatch(reqs[r].content)) > 1
       IN  /\ \E pushOk \in BOOLEAN :
                reqs' = [reqs EXCEPT
                           ![r].code = code,
                           ![r].logs = 2,
                           ![r].toasts = 1,
                           ![r].notFound = IF found THEN 0 ELSE 1,
                           ![r].toastFailed = ~pushOk,
                           ![r].st = "clip"]
           /\ log' = LogAfter({"copy", IF found THEN "code" ELSE "no code"})
    /\ lateLog' = LateAfter
    /\ UNCHANGED <<lifeVars, clipboard>>

\* CopyClipboard putting the whole message on the clipboard.
CopyClipboardContent(r) ==
    /\ Alive /\ reqs[r].route = "copy" /\ reqs[r].st = "clip"
    /\ \E initOk \in BOOLEAN :
         IF initOk
         THEN /\ clipboard' = reqs[r].content
              /\ reqs' = [reqs EXCEPT ![r].clipWrites = @ + 1,
                                      ![r].written = reqs[r].content,
                                      ![r].st = "paste"]
         ELSE /\ reqs' = [reqs EXCEPT ![r].clipErr = TRUE,
                                      ![r].st = "respond"]
              /\ UNCHANGED clipboard
    /\ UNCHANGED <<lifeVars, log, lateLog>>

\* /copy, lines 170-171: when clipboard.Init() succeeds, code goes to the
\* clipboard, whatever code is; when it fails, the write and the paste are
\* skipped.
CopyClipboard(r) ==
    /\ Alive /\ reqs[r].route = "copy" /\ reqs[r].st = "clip"
    /\ \E initOk \in BOOLEAN :
         IF initOk
         THEN /\ clipboard' = reqs[r].code
              /\ reqs' = [reqs EXCEPT ![r].clipWrites = @ + 1,
                                      ![r].written = reqs[r].code,
                                      ![r].st = "paste"]
         ELSE /\ reqs' = [reqs EXCEPT ![r].clipErr = TRUE,
                                      ![r].st = "respond"]
              /\ UNCHANGED clipboard
    /\ UNCHANGED <<lifeVars, log, lateLog>>

\* /copy, line 172: pasteClipboard() sends Ctrl+V, which pastes what the
\* clipboard holds at that moment, and logs it.
CopyPaste(r) ==
    /\ Alive /\ reqs[r].route = "copy" /\ reqs[r].st = "paste"
    /\ reqs' = [reqs EXCEPT ![r].pastes = @ + 1, ![r].pasted = clipboard,
                            ![r].logs = @ + 1, ![r].st = "respond"]
    /\ log' = LogAfter({"paste"})
    /\ lateLog' = LateAfter
    /\ UNCHANGED <<lifeVars, clipboard>>

\* MsgHandle logging and notifying whatever the content is.
MsgHandleAny(r) ==
    /\ Alive /\ reqs[r].route = "msg" /\ reqs[r].st = "recv"
    /\ \E pushOk \in BOOLEAN :
         reqs' = [reqs EXCEPT ![r].logs = 1, ![r].toasts = 1,
                              ![r].toastFailed = ~pushOk,
                              ![r].st = "respond"]
    /\ log' = LogAfter({"msg"})
    /\ lateLog' = LateAfter
    /\ UNCHANGED <<lifeVars, clipboard>>

\* /msg, lines 178-182: non-empty content is logged and notified.
MsgHandle(r) ==
    /\ Alive /\ reqs[r].route = "msg" /\ reqs[r].st = "recv"
    /\ IF reqs[r].content # <<>>
       THEN /\ \E pushOk \in BOOLEAN :
                 reqs' = [reqs EXCEPT ![r].logs = 1, ![r].toasts = 1,
                                      ![r].toastFailed = ~pushOk,
                                      ![r].st = "respond"]
            /\ log' = LogAfter({"msg"})
            /\ lateLog' = LateAfter
       ELSE /\ reqs' = [reqs EXCEPT ![r].st = "respond"]
            /\ UNCHANGED <<log, lateLog>>
    /\ UNCHANGED <<lifeVars, clipboard>>

\* Respond reporting a failed extraction or an empty message to the caller.
RespondStrict(r) ==
    /\ Alive /\ reqs[r].st = "respond"
    /\ reqs' = [reqs EXCEPT
                  ![r].resp = IF reqs[r].code = <<>>
                              THEN [status |-> 400, body |-> "failed"]
                              ELSE [status |-> 200, body |-> "success"],
                  ![r].st = "done"]
    /\ UNCHANGED <<lifeVars, log, lateLog, clipboard>>

\* c.String(200, "success"), the last statement of both handlers.
Respond(r) ==
    /\ Alive /\ reqs[r].st = "respond"
    /\ reqs' = [reqs EXCEPT ![r].resp = [status |-> 200, body |-> "success"],
                            ![r].st = "done"]
    /\ UNCHANGED <<lifeVars, log, lateLog, clipboard>>

\* ------------------------------------------------------------------ spec
\* The commands of the operator and the steps of main, of the two
\* goroutines of onReady and of the server goroutines.
NextLife ==
    \/ SetupLog
    \/ OnReady
    \/ \E g \in {"auto", "menu"} : StartServerCreate(g)
    \/ \E g \in {"auto", "menu"} : StartServerSpawn(g)
    \/ \E g \in {"auto", "menu"} : SetRunning(g)
    \/ \E g \in {"auto", "menu"} : DisableStart(g)
    \/ \E g \in {"auto", "menu"} : EnableStop(g)
    \/ \E g \in {"auto", "menu"} : LogStarted(g)
    \/ \E i \in DOMAIN servers : ServerRun(i)
    \/ ClickStart
    \/ MenuStartCheck
    \/ ClickStop
    \/ MenuStopCheck
    \/ MenuStop
    \/ ClearRunning
    \/ DisableStop
    \/ EnableStart
    \/ LogStopped
    \/ ClickQuit
    \/ \E g \in {"menu", "main"} : OnExitStop(g)
    \/ \E g \in {"menu", "main"} : OnExitLog(g)
    \/ \E g \in {"menu", "main"} : OnExitClose(g)
    \/ SystrayQuit
    \/ RunExitCallback

\* The steps of the handler goroutines.
Handlers ==
    \/ \E r \in DOMAIN reqs : CopyExtract(r)
    \/ \E r \in DOMAIN reqs : CopyClipboard(r)
    \/ \E r \in DOMAIN reqs : CopyPaste(r)
    \/ \E r \in DOMAIN reqs : MsgHandle(r)
    \/ \E r \in DOMAIN reqs : Respond(r)

\* The whole program: lifecycle, and requests arriving at any time.
Next ==
    \/ NextLife
    \/ \E route \in Routes, content \in Contents :
          Accept(route, content, MaxRequests)
    \/ Handlers

Spec == Init /\ [][Next]_vars

\* The lifecycle alone, with no request sent.
SpecLife == Init /\ [][NextLife]_vars

\* The state once the automatic start is over and its listener is bound,
\* the operator having clicked nothing: a state Spec reaches.
InitDispatch ==
    /\ proc = "running"
    /\ pc = [main |-> "nativeLoop", auto |-> "done", menu |-> "select"]
    /\ logFile = "open"
    /\ log = {"program start", "listen", "auto started"}
    /\ lateLog = FALSE
    /\ tray = "ready"
    /\ mStartEnabled = FALSE
    /\ mStopEnabled = TRUE
    /\ serverRunning = TRUE
    /\ serverThread = 1
    /\ wrappers = <<[stopClosed |-> FALSE, by |-> "auto"]>>
    /\ servers = <<[w |-> 1, st |-> "listening"]>>
    /\ portExternal = FALSE
    /\ onExitCalls = 0
    /\ reqs = <<>>
    /\ clipboard = ClipOther
    /\ logLock = "free"
    /\ wl = [g \in LogWriters |-> "idle"]

\* Requests served concurrently by that listener.
NextDispatch ==
    \/ \E route \in Routes, content \in Contents :
          Accept(route, content, MaxConcurrent)
    \/ Handlers

SpecDispatch == InitDispatch /\ [][NextDispatch]_vars

\* ------------------------------------------------------------- writeLog
\* A goroutine calls writeLog and gets to logLock.Lock().
WriteLogCall(g) ==
    /\ Alive /\ wl[g] = "idle"
    /\ wl' = [wl EXCEPT ![g] = "wait"]
    /\ UNCHANGED <<proc, pc, logFile, log, lateLog, tray, mStartEnabled,
                   mStopEnabled, serverRunning, serverThread, wrappers,
                   servers, portExternal, onExitCalls, reqs, clipboard,
                   logLock>>

\* WriteLogLock taking the lock whether or not it is held.
WriteLogLockAny(g) ==
    /\ Alive /\ wl[g] = "wait"
    /\ logLock' = g
    /\ wl' = [wl EXCEPT ![g] = "print"]
    /\ UNCHANGED <<proc, pc, logFile, log, lateLog, tray, mStartEnabled,
                   mStopEnabled, serverRunning, serverThread, wrappers,
                   servers, portExternal, onExitCalls, reqs, clipboard>>

\* logLock.Lock() returns: the mutex was free and is now held by g.
WriteLogLock(g) ==
    /\ Alive /\ wl[g] = "wait" /\ logLock = "free"
    /\ logLock' = g
    /\ wl' = [wl EXCEPT ![g] = "print"]
    /\ UNCHANGED <<proc, pc, logFile, log, lateLog, tray, mStartEnabled,
                   mStopEnabled, serverRunning, serverThread, wrappers,
                   servers, portExternal, onExitCalls, reqs, clipboard>>

\* log.Println(v...)
WriteLogPrint(g) ==
    /\ Alive /\ wl[g] = "print"
    /\ log' = LogAfter({LineOf[g]})
    /\ lateLog' = LateAfter
    /\ wl' = [wl EXCEPT ![g] = "sync"]
    /\ UNCHANGED <<proc, pc, logFile, tray, mStartEnabled, mStopEnabled,
                   serverRunning, serverThread, wrappers, servers,
                   portExternal, onExitCalls, reqs, clipboard, logLock>>

\* logFile.Sync(), then the deferred logLock.Unlock().
WriteLogSync(g) ==
    /\ Alive /\ wl[g] = "sync"
    /\ logLock' = "free"
    /\ wl' = [wl EXCEPT ![g] = "idle"]
    /\ UNCHANGED <<proc, pc, logFile, log, lateLog, tray, mStartEnabled,
                   mStopEnabled, serverRunning, serverThread, wrappers,
                   servers, portExternal, onExitCalls, reqs, clipboard>>

\* writeLog under contention, the process running: each goroutine of
\* LogWriters calls it again and again. A goroutine inside the section goes
\* on (print and sync neither block nor fail); sync.Mutex hands the lock to
\* a goroutine that has waited for 1ms (starvation mode), so a waiter that
\* finds the lock free again and again gets it.
NextLog ==
    \/ \E g \in LogWriters : WriteLogCall(g)
    \/ \E g \in LogWriters : WriteLogLock(g)
    \/ \E g \in LogWriters : WriteLogPrint(g)
    \/ \E g \in LogWriters : WriteLogSync(g)

SpecLog ==
    /\ InitDispatch /\ [][NextLog]_vars
    /\ \A g \in LogWriters :
          /\ SF_vars(WriteLogLock(g))
          /\ WF_vars(WriteLogPrint(g))
          /\ WF_vars(WriteLogSync(g))

\* The extraction alone: that listener receives one /copy request carrying
\* any text, and its handler runs up to the extraction of the code.
NextExtract ==
    \/ /\ reqs = <<>>
       /\ \E content \in Texts : Accept("copy", content, 1)
    \/ \E r \in DOMAIN reqs : CopyExtract(r)

SpecExtract == InitDispatch /\ [][NextExtract]_vars

\* ================================================================ claims
Success == [status |-> 200, body |-> "success"]

\* A start sequence (startServer ... writeLog) of goroutine g is under way.
InStart(g) == pc[g] \in {"spawn", "set", "disable", "enable", "log"}

\* The stop sequence (stopServer ... writeLog) of the menu loop is under way.
InStop == pc["menu"] \in {"t_set", "t_disable", "t_enable", "t_log"}

\* No goroutine is inside a start or stop sequence.
Quiescent == pc["auto"] = "done" /\ pc["menu"] = "select"

\* Reachability of the state SpecDispatch starts from: under Spec TLC finds
\* this invariant violated, by the run that ends the automatic start.
DispatchInitUnreached == ~InitDispatch

\* C1: in every reachable state at most one listener of the service is
\* bound to :9002.
C1_AtMostOneBound == Cardinality(Bound) <= 1

\* C1 witness: two server goroutines have run, one holds the port and the
\* other was refused it.
C1_Witness ==
    \E i, j \in DOMAIN servers :
        servers[i].st = "listening" /\ servers[j].st = "failed"

\* Wrapper w was made by a Start click that followed a Stop of the wrapper
\* before it (serverThread is always the wrapper made last, and the menu
\* loop makes no wrapper after a Quit), and that wrapper's listener held
\* the port.
AfterStop(w) ==
    /\ w > 1
    /\ wrappers[w].by = "menu"
    /\ wrappers[w - 1].stopClosed
    /\ \E j \in DOMAIN servers :
           servers[j].w = w - 1 /\ servers[j].st = "listening"

\* C2: the listener made by a Start that follows a Stop of a running
\* listener ends up bound to :9002: once its Run has been attempted, it is
\* listening.
C2_RestartRebinds ==
    \A i \in DOMAIN servers :
        (AfterStop(servers[i].w) /\ servers[i].st # "spawned")
            => servers[i].st = "listening"

\* C3: once a Stop from Running has completed (the stop channel of
\* serverThread is closed, serverRunning is false, no goroutine is inside a
\* start or stop sequence), the port is released: no listener is bound, so
\* no request can be accepted.
C3_StopReleasesPort ==
    (/\ serverThread # 0
     /\ wrappers[serverThread].stopClosed
     /\ ~serverRunning
     /\ Quiescent)
        => Bound = {}

\* C4: a Start command processed while serverRunning is true is a no-op:
\* the menu loop goes back to its select; no wrapper is made, no goroutine
\* is launched, serverThread and the bound listeners are as before.
C4_StartIdempotent ==
    [][(pc["menu"] = "s_check" /\ pc'["menu"] # "s_check" /\ serverRunning)
          => /\ pc'["menu"] = "select"
             /\ wrappers' = wrappers
             /\ servers' = servers
             /\ serverThread' = serverThread
             /\ serverRunning'
             /\ Cardinality(Bound') <= 1]_vars

\* C4 witness: the menu loop has taken a Start click and serverRunning is
\* already true.
C4_Witness == pc["menu"] = "s_check" /\ serverRunning /\ Alive

\* C5: a stop() attempted while the state is Stopped (serverRunning false,
\* the automatic start over) is a no-op, from the Stop click as from the
\* teardown on Quit: it changes no state and raises no error.
C5_StopIdempotent ==
    [][\A g \in {"menu", "main"} :
         (/\ ~serverRunning /\ pc["auto"] = "done"
          /\ pc[g] \in {"t_check", "x_stop"}
          /\ (pc'[g] # pc[g] \/ proc' # proc))
            => /\ proc' = "running"
               /\ wrappers' = wrappers
               /\ log' = log
               /\ serverRunning' = serverRunning]_vars

\* C6: when the bind of the listener made by the last start() has failed
\* and no listener is bound, the lifecycle is Stopped: serverRunning is not
\* left true with the Stop item enabled.
C6_BindErrorLeavesStopped ==
    (/\ Quiescent
     /\ Bound = {}
     /\ \E i \in DOMAIN servers :
            servers[i].w = serverThread /\ servers[i].st = "failed")
        => ~(serverRunning /\ mStopEnabled)

\* C7: no two start/stop transitions are in flight at once: the automatic
\* start never overlaps a Start or Stop sequence of the menu loop.
C7_TransitionsExclusive ==
    ~(InStart("auto") /\ (InStart("menu") \/ InStop))

\* C8: on Quit the teardown (stop(), then flush and close of the log sink)
\* runs exactly once: onExit is never entered a second time.
C8_TeardownOnce == onExitCalls <= 1

\* C9: every request that a handler has answered got status 200 and body
\* "success", and a handler that has finished has answered.
C9_AlwaysSuccess ==
    \A r \in DOMAIN reqs :
        /\ reqs[r].resp \in {NoResponse, Success}
        /\ reqs[r].st = "done" => reqs[r].resp = Success

\* C9 witness: a /copy request with no code in it, whose notification
\* failed and whose clipboard could not be initialised, has been answered.
C9_Witness ==
    \E r \in DOMAIN reqs :
        /\ reqs[r].st = "done" /\ reqs[r].route = "copy"
        /\ reqs[r].code = <<>> /\ reqs[r].toastFailed
        /\ reqs[r].clipWrites = 0

\* C10: a finished /copy dispatch whose content yields no code wrote
\* nothing to the clipboard, injected no paste, raised exactly one "not
\* found" notification and answered 200 success.
C10_NoCodeNoClipboard ==
    \A r \in DOMAIN reqs :
        (/\ reqs[r].route = "copy" /\ reqs[r].st = "done"
         /\ FindStringSubmatch(reqs[r].content) = <<>>)
            => /\ reqs[r].clipWrites = 0
               /\ reqs[r].pastes = 0
               /\ reqs[r].notFound = 1
               /\ reqs[r].resp = Success

\* The /copy requests whose content holds a code.
WithCode == {r \in DOMAIN reqs : /\ reqs[r].route = "copy"
                                 /\ FindStringSubmatch(reqs[r].content) # <<>>}

C12_PasteSeesOwnCode ==
    \A r \in DOMAIN reqs :
        reqs[r].pastes = 1 => reqs[r].pasted = reqs[r].written

\* The /msg requests.
MsgReqs == {r \in DOMAIN reqs : reqs[r].route = "msg"}

\* What a /msg request has done so far, by its content.
C13_MsgCounts ==
    \A r \in MsgReqs :
        /\ reqs[r].clipWrites = 0 /\ reqs[r].pastes = 0
        /\ reqs[r].notFound = 0
        /\ IF reqs[r].content = <<>>
           THEN reqs[r].logs = 0 /\ reqs[r].toasts = 0
           ELSE /\ reqs[r].logs <= 1 /\ reqs[r].toasts = reqs[r].logs
                /\ reqs[r].st \in {"respond", "done"}
                      => reqs[r].logs = 1 /\ reqs[r].toasts = 1

\* What a step of a /msg request leaves alone.
C13_MsgStep ==
    \A r \in DOMAIN reqs' :
        (/\ reqs'[r].route = "msg"
         /\ r \in DOMAIN reqs => reqs'[r] # reqs[r])
            => /\ clipboard' = clipboard
               /\ UNCHANGED lifeVars
               /\ reqs'[r].content = <<>> => UNCHANGED <<log, lateLog>>

\* C13: a /msg dispatch with empty or missing content produces no
\* notification and no log entry and leaves the clipboard and the listener
\* state unchanged; one with non-empty content produces exactly one log
\* entry and one notification, and never writes the clipboard or pastes.
C13_MsgDispatch == []C13_MsgCounts /\ [][C13_MsgStep]_vars

\* C13 witness: an empty and a non-empty /msg dispatch have both finished,
\* the non-empty one logged and notified.
C13_Witness ==
    \E r1, r2 \in MsgReqs :
        /\ reqs[r1].content = <<>> /\ reqs[r1].st = "done"
        /\ reqs[r2].content # <<>> /\ reqs[r2].st = "done"
        /\ reqs[r2].logs = 1 /\ reqs[r2].toasts = 1
        /\ "msg" \in log

\* The /copy requests whose extraction has run.
Extracted == {r \in DOMAIN reqs : reqs[r].route = "copy" /\ reqs[r].st # "recv"}

\* The marker token stands at position i of s.
MarkerAt(s, i) == i + 2 <= Len(s) /\ SubSeq(s, i, i + 2) = Marker

\* Position i of s holds a digit that follows a marker.
DigitAfterMarker(s, i) ==
    s[i] \in Digit /\ \E m \in 1..(i - 3) : MarkerAt(s, m)

\* C14: for a text holding the marker followed somewhere later by a digit,
\* the extracted code is the first maximal run of digits after the leftmost
\* marker, also with several markers or several digit runs.
C14_FirstRunAfterFirstMarker ==
    \A r \in Extracted :
        LET s == reqs[r].content
        IN  \A m \in 1..Len(s) :
              (/\ MarkerAt(s, m)
               /\ \A a \in 1..(m - 1) : ~MarkerAt(s, a)
               /\ \E j \in (m + 3)..Len(s) : s[j] \in Digit)
                  => \E d \in (m + 3)..Len(s), e \in (m + 3)..Len(s) :
                        /\ d <= e
                        /\ \A k \in (m + 3)..(d - 1) : s[k] \notin Digit
                        /\ \A k \in d..e : s[k] \in Digit
                        /\ e = Len(s) \/ s[e + 1] \notin Digit
                        /\ reqs[r].code = SubSeq(s, d, e)
                        /\ reqs[r].notFound = 0

\* C14 witness: the code was extracted from a text with a digit before the
\* first marker, two markers and two digit runs after the first marker.
C14_Witness ==
    \E r \in Extracted :
        /\ reqs[r].content = <<"2">> \o Marker \o <<"1", "2">> \o Marker \o <<"1">>
        /\ reqs[r].code = <<"1", "2">>

\* C15: for a text with no marker, or with no digit after a marker (digits
\* before the marker included), the extraction yields no code.
C15_NoMarkerNoCode ==
    \A r \in Extracted :
        LET s == reqs[r].content
        IN  (\A i \in 1..Len(s) : ~DigitAfterMarker(s, i))
               => reqs[r].code = <<>> /\ reqs[r].notFound = 1

\* C15 witness: the extraction ran on a text whose only digit precedes the
\* marker and found no code.
C15_Witness ==
    \E r \in Extracted :
        /\ reqs[r].content = <<"1">> \o Marker \o <<"x">>
        /\ reqs[r].code = <<>>
        /\ reqs[r].notFound = 1

\* C16: when the log file cannot be opened the process aborts before any
\* control surface: the tray is never initialised, no menu item exists, no
\* goroutine of onReady runs and no listener is ever started.
C16_NoLogNoTray ==
    /\ (logFile = "nil" /\ pc["main"] # "setupLog") => proc = "exit1"
    /\ logFile = "nil"
          => /\ tray = "none"
             /\ ~mStartEnabled /\ ~mStopEnabled
             /\ pc["auto"] = "idle" /\ pc["menu"] = "idle"
             /\ serverThread = 0 /\ wrappers = <<>> /\ servers = <<>>
             /\ ~serverRunning

\* C16 witness: the log file could not be opened and the process has exited.
C16_Witness == proc = "exit1" /\ logFile = "nil"

\* C17: a request in flight when stop() is requested is not aborted: the
\* call of stop() never ends the process under a handler that has not yet
\* sent its response.
C17_InFlightCompletes ==
    proc = "panicked" => \A r \in DOMAIN reqs : reqs[r].st = "done"

\* C19: the stop channel of a wrapper is closed at most once: Stop is never
\* executed on a wrapper whose stopCh is already closed, over any sequence
\* of Start, Stop and Quit commands.
C19_StopChClosedOnce == proc # "panicked"

\* C20: whenever no start/stop transition is in progress, the menu mirrors
\* the lifecycle flag: Start is enabled iff serverRunning is false and Stop
\* is enabled iff serverRunning is true, so exactly one of them is enabled.
C20_MenuMirrorsFlag ==
    (Alive /\ tray = "ready" /\ Quiescent)
        => /\ mStartEnabled <=> ~serverRunning
           /\ mStopEnabled <=> serverRunning

\* The goroutines inside the print-and-sync section of writeLog.
InSection == {g \in LogWriters : wl[g] \in {"print", "sync"}}

\* C18: writers of the log are serialized: at most one goroutine is inside
\* the print-and-sync section of writeLog at any time, and every writer that
\* requests the lock eventually obtains it and eventually releases it.
C18_LogSerialized ==
    /\ [](Cardinality(InSection) <= 1)
    /\ \A g \in LogWriters :
          /\ (wl[g] = "wait") ~> (g \in InSection /\ logLock = g)
          /\ (g \in InSection) ~> (wl[g] = "idle")

\* C18 witness: one goroutine is inside the section while all the others
\* wait for the lock.
C18_Witness ==
    /\ wl["handler1"] = "sync" /\ logLock = "handler1"
    /\ \A g \in LogWriters \ {"handler1"} : wl[g] = "wait"

====
